---- MODULE Spec2Model ----
(***************************************************************************)
(* Memfault Diagnostic Service (MDS) GATT server of main/gatts_demo.c:     *)
(* the attribute-table build sequence, the single-subscriber session and   *)
(* the chunk export engine, as one state machine driven by the events the  *)
(* BLE host stack delivers to gatts_profile_event_handler.                 *)
(***************************************************************************)
EXTENDS Integers, Sequences, FiniteSets, TLC

\* ---------------------------------------------------------------- bounds
MaxQueue == 1        \* messages the telemetry source buffers at once
MaxProduced == 1     \* messages the telemetry producer hands over in a run of Spec
MaxStream == 40      \* messages it hands over in a run of SpecStream
MaxInflight == 2     \* notifications submitted and not yet confirmed
MaxFaults == 1       \* faulty creation confirmations the stack may deliver

\* ------------------------------------------------------ program constants
ESP_GATT_OK == 0
ESP_GATT_INVALID_HANDLE == 1
ESP_GATT_INVALID_PDU == 4
MDS_ERR_INVALID_LENGTH == 128
MDS_ERR_CLIENT_ALREADY_SUBSCRIBED == 129
MDS_ERR_CLIENT_NOT_SUBSCRIBED == 130
ESP_GATT_UUID_CHAR_CLIENT_CONFIG == 10498
MDS_NUM_CHARACTERISTICS == 5
MDS_NUM_DESCRIPTORS == 1
MDS_NUM_HANDLES == 1 + (2 * MDS_NUM_CHARACTERISTICS) + MDS_NUM_DESCRIPTORS
NoConn == 65535
DefaultMtu == 23
SeqModulus == 32
ServiceHandleBase == 40

\* ------------------------------------------------------- input alphabets
Conns == {0, 1}
MtuValues == {23, 185, 517}
MessageSizes == {8, 20}
Statuses == {ESP_GATT_OK, 133}                \* success, ESP_GATT_ERROR
CharUuidBytes == 1..6
DescrUuids == {ESP_GATT_UUID_CHAR_CLIENT_CONFIG, 10497}   \* CCCD, user description
Fates == {"ok", "nomem", "sendfail"}   \* how malloc and the stack's send turn out

VARIABLES
  mds_state,       \* the session: subscribed, conn_id, export_mode, chunk_sequence, mtu, congested
  mds_handles,     \* the handle table
  profile_handle,  \* the service handle
  src,             \* telemetry source: buffered message sizes and the read offset in the head
  pending,         \* the creation request the stack has outstanding
  evt,             \* the event handled last
  out,             \* the outbound calls the handler made for evt, in call order
  produced,        \* messages the telemetry producer has handed over
  inflight,        \* notifications submitted and not yet confirmed
  lastSeq,         \* sequence number of the latest successful notification, -1 if none
  prevSeq,         \* sequence number of the one before it, -1 if none
  lastMtu,         \* MTU of the most recent MTU event, 23 if none
  inOrder,         \* every creation confirmation so far had success status and matched pending
  faults,          \* number of confirmations that did not
  setCount,        \* per handle-table field, how many times it was assigned
  startCount,      \* number of start-service requests issued
  sinceDisable,    \* 0, or since the last accepted unsubscribe: 1 not resubscribed, 2 resubscribed
  scen             \* progress through the one-chunk example scenario, -1 when left

vars == <<mds_state, mds_handles, profile_handle, src, pending, evt, out, produced, inflight,
          lastSeq, prevSeq, lastMtu, inOrder, faults, setCount, startCount, sinceDisable, scen>>

Min(a, b) == IF a < b THEN a ELSE b
Max(a, b) == IF a > b THEN a ELSE b

\* ----------------------------------------------------- events and calls
Event(type, conn, handle, value, status, arg) ==
  [type |-> type, conn |-> conn, handle |-> handle, value |-> value,
   status |-> status, arg |-> arg]

Call(type, conn, handle, status, hdr, len, uuid, arg, ok) ==
  [type |-> type, conn |-> conn, handle |-> handle, status |-> status,
   hdr |-> hdr, len |-> len, uuid |-> uuid, arg |-> arg, ok |-> ok]

esp_ble_gatts_send_response(conn, status, arg) ==
  Call("response", conn, 0, status, 0, 0, 0, arg, TRUE)

esp_ble_gatts_send_indicate(conn, handle, hdr, len, ok) ==
  Call("notify", conn, handle, 0, hdr, len, 0, "", ok)

malloc(total_len, ok) ==
  Call("malloc", NoConn, 0, 0, 0, total_len, 0, "", ok)

memfault_packetizer_get_chunk(maxLen) ==
  Call("get_chunk", NoConn, 0, 0, 0, maxLen, 0, "", TRUE)

memfault_packetizer_abort ==
  Call("abort", NoConn, 0, 0, 0, 0, 0, "", TRUE)

esp_ble_gatts_create_service(numHandles) ==
  Call("create_service", NoConn, 0, 0, 0, numHandles, 0, "", TRUE)

esp_ble_gatts_add_char(svc, uuidByte, perm) ==
  Call("add_char", NoConn, svc, 0, 0, 0, uuidByte, perm, TRUE)

esp_ble_gatts_add_char_descr(svc, uuid16) ==
  Call("add_char_descr", NoConn, svc, 0, 0, 0, uuid16, "read_write", TRUE)

esp_ble_gatts_start_service(svc) ==
  Call("start_service", NoConn, svc, 0, 0, 0, 0, "", TRUE)

esp_ble_gap_start_advertising ==
  Call("start_advertising", NoConn, 0, 0, 0, 0, 0, "", TRUE)

CreationTypes == {"create_service", "add_char", "add_char_descr"}
ProtocolTypes == CreationTypes \cup {"start_service", "response", "notify", "start_advertising"}

\* the calls of a given set of types among those of the last event
CallsOf(o, types) == {i \in 1..Len(o) : o[i].type \in types}
Notifies(o) == CallsOf(o, {"notify"})
SentOk(o) == {i \in Notifies(o) : o[i].ok}

\* ----------------------------------------------------- telemetry source
DataAvailable(s) == s.queue # <<>>

ChunkSize(s, maxLen) == Min(maxLen, Head(s.queue) - s.offset)

AfterGetChunk(s, maxLen) ==
  IF s.offset + ChunkSize(s, maxLen) = Head(s.queue)
    THEN [queue |-> Tail(s.queue), offset |-> 0]
    ELSE [s EXCEPT !.offset = @ + ChunkSize(s, maxLen)]

AfterAbort(s) == [s EXCEPT !.offset = 0]

\* ------------------------------------------------- chunk export engine
MaxChunkSize_AttHeaderOnly(mtu) == mtu - 3

MaxChunkSize(mtu) == mtu - 4

FrameHeader_RfuSet(seq) == (seq % 32) + 32 * 1

FrameHeader(seq) == (seq % 32) + 32 * 0

NextSeq_FourBitMask(seq) == (seq + 1) % 16

NextSeq(seq) == (seq + 1) % SeqModulus

SendPreconditions_IgnoresCongestion(st) == st.subscribed /\ st.export_mode = 1

SendPreconditions(st) == st.subscribed /\ st.export_mode = 1 /\ ~st.congested

OnDrained_StaysStreaming(st) == st

\* the source has nothing to hand out: the transfer is over
OnDrained(st) == [st EXCEPT !.export_mode = 0]

NotifyConn_ProfileTab(st) == 0

\* the connection a notification is addressed to
NotifyConn(st) == st.conn_id

AfterSubmit_AlwaysAdvances(st, ok) == [st EXCEPT !.chunk_sequence = NextSeq(@)]

\* the sequence counter moves only when the stack took the notification
AfterSubmit(st, ok) == IF ok THEN [st EXCEPT !.chunk_sequence = NextSeq(@)] ELSE st

send_chunk_notification(st, hs, s, fate) ==
  IF ~SendPreconditions(st) THEN [st |-> st, src |-> s, out |-> <<>>]
  ELSE LET max == MaxChunkSize(st.mtu)
           buf == malloc(1 + max, fate # "nomem")
           get == memfault_packetizer_get_chunk(max)
       IN IF fate = "nomem" THEN [st |-> st, src |-> s, out |-> <<buf>>]
          ELSE IF ~DataAvailable(s)
            THEN [st |-> OnDrained(st), src |-> s, out |-> <<buf, get>>]
          ELSE LET total_len == 1 + ChunkSize(s, max)
                   ind == esp_ble_gatts_send_indicate(NotifyConn(st), hs.data_export_handle,
                            FrameHeader(st.chunk_sequence), total_len, fate # "sendfail")
               IN IF fate # "sendfail"
                    THEN [st |-> AfterSubmit(st, TRUE),
                          src |-> AfterGetChunk(s, max),
                          out |-> <<buf, get, ind>>]
                    ELSE [st |-> AfterSubmit(st, FALSE),
                          src |-> AfterAbort(AfterGetChunk(s, max)),
                          out |-> <<buf, get, ind, memfault_packetizer_abort>>]

\* ------------------------------------------------------------ initial state
HandleFields == {"supported_features_handle", "device_id_handle", "data_uri_handle",
                 "auth_handle", "data_export_handle", "data_export_cccd_handle"}

MdsStateInit ==
  [subscribed |-> FALSE, conn_id |-> NoConn, export_mode |-> 0, chunk_sequence |-> 0,
   mtu |-> DefaultMtu, congested |-> FALSE]

MdsHandlesInit == [f \in HandleFields |-> 0]

NoEvent == Event("none", NoConn, 0, <<>>, 0, 0)

Init ==
  /\ mds_state = MdsStateInit
  /\ mds_handles = MdsHandlesInit
  /\ profile_handle = 0
  /\ src = [queue |-> <<>>, offset |-> 0]
  /\ pending = "register"
  /\ evt = NoEvent
  /\ out = <<>>
  /\ produced = 0
  /\ inflight = 0
  /\ lastSeq = -1
  /\ prevSeq = -1
  /\ lastMtu = DefaultMtu
  /\ inOrder = TRUE
  /\ faults = 0
  /\ setCount = [f \in HandleFields |-> 0]
  /\ startCount = 0
  /\ sinceDisable = 0
  /\ scen = 0

\* ---------------------------------------------------- history bookkeeping
AllOk(o) == \A i \in 1..Len(o) : o[i].ok

LastOf(S) == CHOOSE i \in S : \A j \in S : j <= i

\* the example scenario: 0 start, 1 subscribed, 2 one 8-byte chunk sent, 3 confirmed
ScenNext(e, o, hs, s) ==
  IF scen = -1 THEN -1
  ELSE IF e.type \in {"reg", "create", "add_char", "add_char_descr", "start"} THEN scen
  ELSE IF e.type = "produce" /\ scen \in {0, 1} THEN scen
  ELSE IF e.type = "mtu" /\ e.arg = DefaultMtu /\ scen \in {0, 1} THEN scen
  ELSE IF /\ e.type = "write" /\ scen = 0
          /\ e.handle = hs.data_export_cccd_handle /\ e.value = <<1, 0>> THEN 1
  ELSE IF /\ e.type = "write" /\ scen = 1
          /\ e.handle = hs.data_export_handle /\ e.value = <<1>>
          /\ s = [queue |-> <<8>>, offset |-> 0] /\ AllOk(o) THEN 2
  ELSE IF e.type = "conf" /\ scen = 2 /\ AllOk(o) THEN 3
  ELSE IF e.type \in {"conf", "congest"} /\ scen = 3 THEN 3
  ELSE -1

AcceptedWrite(e, o, handle) ==
  e.type = "write" /\ e.handle = handle /\ o # <<>> /\ o[1].status = ESP_GATT_OK

SinceDisableNext(e, o, hs) ==
  IF AcceptedWrite(e, o, hs.data_export_cccd_handle) /\ e.value[1] % 2 = 0 THEN 1
  ELSE IF AcceptedWrite(e, o, hs.data_export_cccd_handle) /\ sinceDisable = 1 THEN 2
  ELSE IF AcceptedWrite(e, o, hs.data_export_handle) /\ e.value = <<1>> /\ sinceDisable = 2
    THEN 0
  ELSE sinceDisable

InflightNext(e, o) ==
  (IF e.type = "conf" THEN Max(inflight - 1, 0)
   ELSE IF e.type = "disconnect" THEN 0 ELSE inflight) + Cardinality(SentOk(o))

\* a fate other than "ok" is an input only when the handler gets to malloc
FateUsed(fate, o) == fate = "ok" \/ CallsOf(o, {"malloc"}) # {}

CommitSession(e, st2, s2, o) ==
  /\ InflightNext(e, o) <= MaxInflight
  /\ evt' = e
  /\ mds_state' = st2
  /\ src' = s2
  /\ out' = o
  /\ inflight' = InflightNext(e, o)
  /\ lastSeq' = IF SentOk(o) = {} THEN lastSeq ELSE o[LastOf(SentOk(o))].hdr
  /\ prevSeq' = IF SentOk(o) = {} THEN prevSeq ELSE lastSeq
  /\ lastMtu' = IF e.type = "mtu" THEN e.arg ELSE lastMtu
  /\ scen' = ScenNext(e, o, mds_handles, src)
  /\ sinceDisable' = SinceDisableNext(e, o, mds_handles)
  /\ produced' = produced + (IF e.type = "produce" THEN 1 ELSE 0)
  /\ UNCHANGED <<mds_handles, profile_handle, pending, inOrder, faults, setCount, startCount>>

\* ------------------------------------------- service builder sequencer
\* the handle a well-behaved stack assigns within the service's 12-handle range
StackHandle(kind, b, status) ==
  IF status # ESP_GATT_OK THEN 0
  ELSE IF kind = "service" THEN ServiceHandleBase
  ELSE IF kind = "char" THEN ServiceHandleBase + 2 * b
  ELSE ServiceHandleBase + MDS_NUM_HANDLES - 1

CharField(b) ==
  IF b = 1 THEN "supported_features_handle"
  ELSE IF b = 2 THEN "device_id_handle"
  ELSE IF b = 3 THEN "data_uri_handle"
  ELSE IF b = 4 THEN "auth_handle"
  ELSE IF b = 5 THEN "data_export_handle"
  ELSE "none"

\* the token of the request an outbound creation call leaves outstanding
RequestToken(c) ==
  IF c.type = "create_service" THEN "service"
  ELSE IF c.type = "add_char" THEN CharField(c.uuid)
  ELSE IF c.type = "add_char_descr" THEN "data_export_cccd_handle"
  ELSE "start"

NextAttribute_SkipsDataExport(svc, b) ==
  IF b \in 1..3 THEN <<esp_ble_gatts_add_char(svc, b + 1, "read")>>
  ELSE IF b \in 4..5
    THEN <<esp_ble_gatts_add_char_descr(svc, ESP_GATT_UUID_CHAR_CLIENT_CONFIG)>>
  ELSE <<>>

\* the request issued after the characteristic with UUID byte b was added
NextAttribute(svc, b) ==
  IF b \in 1..3 THEN <<esp_ble_gatts_add_char(svc, b + 1, "read")>>
  ELSE IF b = 4 THEN <<esp_ble_gatts_add_char(svc, 5, "write_notify")>>
  ELSE IF b = 5 THEN <<esp_ble_gatts_add_char_descr(svc, ESP_GATT_UUID_CHAR_CLIENT_CONFIG)>>
  ELSE <<>>

CommitBuild(e, hs2, ph2, o, expected, assigned) ==
  LET fault == e.status # ESP_GATT_OK \/ pending # expected
      nf == faults + (IF fault THEN 1 ELSE 0)
  IN /\ nf <= MaxFaults
     /\ evt' = e
     /\ mds_handles' = hs2
     /\ profile_handle' = ph2
     /\ out' = o
     /\ pending' = IF o # <<>> THEN RequestToken(o[Len(o)])
                   ELSE IF fault THEN pending ELSE "none"
     /\ inOrder' = (inOrder /\ ~fault)
     /\ faults' = nf
     /\ setCount' = [f \in HandleFields |-> setCount[f] + (IF f = assigned THEN 1 ELSE 0)]
     /\ startCount' = startCount + Cardinality(CallsOf(o, {"start_service"}))
     /\ scen' = ScenNext(e, o, mds_handles, src)
     /\ UNCHANGED <<mds_state, src, produced, inflight, lastSeq, prevSeq, lastMtu, sinceDisable>>

RegEvt ==
  /\ pending = "register"
  /\ CommitBuild(Event("reg", NoConn, 0, <<>>, ESP_GATT_OK, 0), mds_handles, profile_handle,
                 <<esp_ble_gatts_create_service(MDS_NUM_HANDLES)>>, "register", "none")

CreateEvt(status) ==
  LET service_handle == StackHandle("service", 0, status)
  IN /\ pending \notin {"register", "none"}
     /\ CommitBuild(Event("create", NoConn, service_handle, <<>>, status, 0),
                    mds_handles, service_handle,
                    <<esp_ble_gatts_add_char(service_handle, 1, "read")>>, "service", "none")

AddCharEvt(status, b) ==
  LET attr_handle == StackHandle("char", b, status)
      hs2 == IF b \in 1..5 THEN [mds_handles EXCEPT ![CharField(b)] = attr_handle]
             ELSE mds_handles
  IN /\ pending \notin {"register", "none"}
     /\ CommitBuild(Event("add_char", NoConn, attr_handle, <<>>, status, b),
                    hs2, profile_handle, NextAttribute(profile_handle, b), CharField(b),
                    CharField(b))

AddCharDescrEvt(status, uuid16) ==
  LET attr_handle == StackHandle("descr", 0, status)
      hs2 == IF uuid16 = ESP_GATT_UUID_CHAR_CLIENT_CONFIG
               THEN [mds_handles EXCEPT !.data_export_cccd_handle = attr_handle]
               ELSE mds_handles
  IN /\ pending \notin {"register", "none"}
     /\ CommitBuild(Event("add_char_descr", NoConn, attr_handle, <<>>, status, uuid16),
                    hs2, profile_handle, <<esp_ble_gatts_start_service(profile_handle)>>,
                    IF uuid16 = ESP_GATT_UUID_CHAR_CLIENT_CONFIG
                      THEN "data_export_cccd_handle" ELSE "none",
                    IF uuid16 = ESP_GATT_UUID_CHAR_CLIENT_CONFIG
                      THEN "data_export_cccd_handle" ELSE "none")

StartEvt(status) ==
  /\ pending = "start"
  /\ CommitBuild(Event("start", NoConn, profile_handle, <<>>, status, 0),
                 mds_handles, profile_handle, <<>>, "start", "none")

\* ----------------------------------------------------- request dispatcher
ServiceRunning == pending = "none"

ReadValue_AuthAsUri(hs, handle) ==
  IF handle = hs.supported_features_handle THEN "mds_supported_features"
  ELSE IF handle = hs.device_id_handle THEN "mds_device_id"
  ELSE IF handle = hs.data_uri_handle THEN "mds_data_uri"
  ELSE IF handle = hs.auth_handle THEN "mds_data_uri"
  ELSE "none"

ReadValue(hs, handle) ==
  IF handle = hs.supported_features_handle THEN "mds_supported_features"
  ELSE IF handle = hs.device_id_handle THEN "mds_device_id"
  ELSE IF handle = hs.data_uri_handle THEN "mds_data_uri"
  ELSE IF handle = hs.auth_handle THEN "mds_auth"
  ELSE "none"

ReadResponse_NoBreak(hs, conn, handle) ==
  IF ReadValue(hs, handle) = "none"
    THEN <<esp_ble_gatts_send_response(conn, ESP_GATT_INVALID_HANDLE, ""),
           esp_ble_gatts_send_response(conn, ESP_GATT_OK, "none")>>
    ELSE <<esp_ble_gatts_send_response(conn, ESP_GATT_OK, ReadValue(hs, handle))>>

ReadResponse(hs, conn, handle) ==
  IF ReadValue(hs, handle) = "none"
    THEN <<esp_ble_gatts_send_response(conn, ESP_GATT_INVALID_HANDLE, "")>>
    ELSE <<esp_ble_gatts_send_response(conn, ESP_GATT_OK, ReadValue(hs, handle))>>

ReadEvt(conn, handle) ==
  /\ ServiceRunning
  /\ CommitSession(Event("read", conn, handle, <<>>, 0, 0), mds_state, src,
                   ReadResponse(mds_handles, conn, handle))

DataExportStatus_SubscriptionFirst(st, value) ==
  IF ~st.subscribed THEN MDS_ERR_CLIENT_NOT_SUBSCRIBED
  ELSE IF Len(value) # 1 THEN MDS_ERR_INVALID_LENGTH
  ELSE IF value[1] # 0 /\ value[1] # 1 THEN ESP_GATT_INVALID_PDU
  ELSE ESP_GATT_OK

\* validation of a write to the Data Export characteristic: the status to answer with
DataExportStatus(st, value) ==
  IF Len(value) # 1 THEN MDS_ERR_INVALID_LENGTH
  ELSE IF ~st.subscribed THEN MDS_ERR_CLIENT_NOT_SUBSCRIBED
  ELSE IF value[1] # 0 /\ value[1] # 1 THEN ESP_GATT_INVALID_PDU
  ELSE ESP_GATT_OK

DataExportWrite_StoresBeforeCheck(st, hs, s, conn, value, fate) ==
  LET status == DataExportStatus(st, value)
      rsp == esp_ble_gatts_send_response(conn, status, "")
  IN IF status = ESP_GATT_INVALID_PDU
       THEN [st |-> [st EXCEPT !.export_mode = value[1]], src |-> s, out |-> <<rsp>>]
     ELSE IF status # ESP_GATT_OK THEN [st |-> st, src |-> s, out |-> <<rsp>>]
     ELSE LET st1 == [st EXCEPT !.export_mode = value[1]]
              sent == send_chunk_notification(st1, hs, s, fate)
          IN IF value[1] = 1
               THEN [st |-> sent.st, src |-> sent.src, out |-> <<rsp>> \o sent.out]
               ELSE [st |-> st1, src |-> s, out |-> <<rsp>>]

DataExportWrite_SendsFirst(st, hs, s, conn, value, fate) ==
  LET status == DataExportStatus(st, value)
      rsp == esp_ble_gatts_send_response(conn, status, "")
  IN IF status # ESP_GATT_OK THEN [st |-> st, src |-> s, out |-> <<rsp>>]
     ELSE LET st1 == [st EXCEPT !.export_mode = value[1]]
              sent == send_chunk_notification(st1, hs, s, fate)
          IN IF value[1] = 1
               THEN [st |-> sent.st, src |-> sent.src, out |-> sent.out \o <<rsp>>]
               ELSE [st |-> st1, src |-> s, out |-> <<rsp>>]

DataExportWrite(st, hs, s, conn, value, fate) ==
  LET status == DataExportStatus(st, value)
      rsp == esp_ble_gatts_send_response(conn, status, "")
  IN IF status # ESP_GATT_OK THEN [st |-> st, src |-> s, out |-> <<rsp>>]
     ELSE LET st1 == [st EXCEPT !.export_mode = value[1]]
              sent == send_chunk_notification(st1, hs, s, fate)
          IN IF value[1] = 1
               THEN [st |-> sent.st, src |-> sent.src, out |-> <<rsp>> \o sent.out]
               ELSE [st |-> st1, src |-> s, out |-> <<rsp>>]

DescrValue(value) == value[2] * 256 + value[1]

NotificationsEnabled(value) == DescrValue(value) % 2 # 0

AlreadySubscribed_AnyRequest(st, conn, enabled) == st.subscribed /\ st.conn_id # conn

AlreadySubscribed_SameConn(st, conn, enabled) == enabled /\ st.subscribed /\ st.conn_id = conn

AlreadySubscribed(st, conn, enabled) == enabled /\ st.subscribed /\ st.conn_id # conn

Subscribe_FreshSession(st, conn, enabled) ==
  [st EXCEPT !.subscribed = enabled,
             !.conn_id = IF enabled THEN conn ELSE NoConn,
             !.export_mode = 0]

Subscribe_KeepMode(st, conn, enabled) ==
  [st EXCEPT !.subscribed = enabled, !.conn_id = IF enabled THEN conn ELSE NoConn]

Subscribe(st, conn, enabled) ==
  [st EXCEPT !.subscribed = enabled,
             !.conn_id = IF enabled THEN conn ELSE NoConn,
             !.export_mode = IF enabled THEN @ ELSE 0]

CccdWrite(st, s, conn, value) ==
  IF Len(value) # 2
    THEN [st |-> st, src |-> s,
          out |-> <<esp_ble_gatts_send_response(conn, MDS_ERR_INVALID_LENGTH, "")>>]
  ELSE IF AlreadySubscribed(st, conn, NotificationsEnabled(value))
    THEN [st |-> st, src |-> s,
          out |-> <<esp_ble_gatts_send_response(conn, MDS_ERR_CLIENT_ALREADY_SUBSCRIBED, "")>>]
  ELSE [st |-> Subscribe(st, conn, NotificationsEnabled(value)), src |-> s,
        out |-> <<esp_ble_gatts_send_response(conn, ESP_GATT_OK, "")>>]

WriteResult(st, hs, s, conn, handle, value, fate) ==
  IF handle = hs.data_export_handle
    THEN DataExportWrite(st, hs, s, conn, value, fate)
  ELSE IF handle = hs.data_export_cccd_handle THEN CccdWrite(st, s, conn, value)
  ELSE [st |-> st, src |-> s, out |-> <<>>]

WriteEvt(conn, handle, value, fate) ==
  LET r == WriteResult(mds_state, mds_handles, src, conn, handle, value, fate)
  IN /\ ServiceRunning
     /\ FateUsed(fate, r.out)
     /\ CommitSession(Event("write", conn, handle, value, 0, 0), r.st, r.src, r.out)

ConfResult_Ignored(st, hs, s, fate) == [st |-> st, src |-> s, out |-> <<>>]

ConfResult(st, hs, s, fate) ==
  IF st.export_mode = 1 THEN send_chunk_notification(st, hs, s, fate)
  ELSE [st |-> st, src |-> s, out |-> <<>>]

ConfEvt(fate) ==
  LET r == ConfResult(mds_state, mds_handles, src, fate)
  IN /\ ServiceRunning
     /\ FateUsed(fate, r.out)
     /\ CommitSession(Event("conf", NoConn, 0, <<>>, 0, 0), r.st, r.src, r.out)

MtuEvt(mtu) ==
  /\ ServiceRunning
  /\ CommitSession(Event("mtu", NoConn, 0, <<>>, 0, mtu), [mds_state EXCEPT !.mtu = mtu],
                   src, <<>>)

OnDisconnect_KeepsSubscriber(st) == [st EXCEPT !.subscribed = FALSE, !.export_mode = 0]

OnDisconnect_KeepsMode(st) == [st EXCEPT !.subscribed = FALSE, !.conn_id = NoConn]

OnDisconnect(st) ==
  [st EXCEPT !.subscribed = FALSE, !.conn_id = NoConn, !.export_mode = 0]

DisconnectEvt(conn) ==
  /\ ServiceRunning
  /\ CommitSession(Event("disconnect", conn, 0, <<>>, 0, 0), OnDisconnect(mds_state), src,
                   <<esp_ble_gap_start_advertising>>)

CongestResult_NoResume(st, hs, s, congested, fate) ==
  [st |-> [st EXCEPT !.congested = congested], src |-> s, out |-> <<>>]

CongestResult(st, hs, s, congested, fate) ==
  LET st1 == [st EXCEPT !.congested = congested]
  IN IF ~st1.congested /\ st1.export_mode = 1
       THEN send_chunk_notification(st1, hs, s, fate)
       ELSE [st |-> st1, src |-> s, out |-> <<>>]

CongestEvt(congested, fate) ==
  LET r == CongestResult(mds_state, mds_handles, src, congested, fate)
  IN /\ ServiceRunning
     /\ FateUsed(fate, r.out)
     /\ CommitSession(Event("congest", NoConn, 0, <<>>, 0, IF congested THEN 1 ELSE 0),
                      r.st, r.src, r.out)

\* the telemetry producer buffers one more message
SourceProduce(size, limit) ==
  /\ ServiceRunning
  /\ Len(src.queue) < MaxQueue
  /\ produced < limit
  /\ CommitSession(Event("produce", NoConn, 0, <<>>, 0, size), mds_state,
                   [src EXCEPT !.queue = Append(@, size)], <<>>)

\* ------------------------------------------------------------ input alphabets
ReadHandles == {mds_handles[f] : f \in HandleFields} \cup {ServiceHandleBase + 1}

\* writes: every branch of the two write paths, and one write to a read-only value
ExportWrites == {<<0, 0>>, <<0>>, <<1>>, <<2>>}
CccdWrites == {<<1>>, <<0, 0>>, <<1, 0>>, <<2, 1>>, <<3, 0>>}
OtherWrites == {<<1>>}

WriteInputs ==
  ({mds_handles.data_export_handle} \X ExportWrites)
    \cup ({mds_handles.data_export_cccd_handle} \X CccdWrites)
    \cup ({mds_handles.auth_handle} \X OtherWrites)

\* ------------------------------------------------------------ specifications
BuildInOrder ==
  \/ RegEvt
  \/ pending = "service" /\ CreateEvt(ESP_GATT_OK)
  \/ \E b \in 1..MDS_NUM_CHARACTERISTICS : pending = CharField(b) /\ AddCharEvt(ESP_GATT_OK, b)
  \/ pending = "data_export_cccd_handle"
       /\ AddCharDescrEvt(ESP_GATT_OK, ESP_GATT_UUID_CHAR_CLIENT_CONFIG)
  \/ StartEvt(ESP_GATT_OK)

Next ==
  \/ BuildInOrder
  \/ \E conn \in Conns, handle \in ReadHandles : ReadEvt(conn, handle)
  \/ \E conn \in Conns, w \in WriteInputs, fate \in Fates : WriteEvt(conn, w[1], w[2], fate)
  \/ \E fate \in Fates : ConfEvt(fate)
  \/ \E mtu \in MtuValues : MtuEvt(mtu)
  \/ \E conn \in Conns : DisconnectEvt(conn)
  \/ \E congested \in BOOLEAN, fate \in Fates : CongestEvt(congested, fate)
  \/ \E size \in MessageSizes : SourceProduce(size, MaxProduced)

Spec == Init /\ [][Next]_vars

\* the build with a stack that may confirm with an error status or out of order
NextBuild ==
  \/ RegEvt
  \/ \E status \in Statuses : CreateEvt(status)
  \/ \E status \in Statuses, b \in CharUuidBytes : AddCharEvt(status, b)
  \/ \E status \in Statuses, uuid16 \in DescrUuids : AddCharDescrEvt(status, uuid16)
  \/ \E status \in Statuses : StartEvt(status)

SpecBuild == Init /\ [][NextBuild]_vars

\* one subscriber streaming a long run of chunks
NextStream ==
  \/ BuildInOrder
  \/ \E value \in {<<1, 0>>} : WriteEvt(0, mds_handles.data_export_cccd_handle, value, "ok")
  \/ \E fate \in Fates : WriteEvt(0, mds_handles.data_export_handle, <<1>>, fate)
  \/ \E fate \in Fates : ConfEvt(fate)
  \/ DisconnectEvt(0)
  \/ SourceProduce(8, MaxStream)

SpecStream == Init /\ [][NextStream]_vars

\* one subscriber that stays connected and subscribed and never cancels the
\* export: the stack confirms what was submitted and clears congestion
Confirm == inflight > 0 /\ \E fate \in Fates : ConfEvt(fate)

CongestionCleared == mds_state.congested /\ \E fate \in Fates : CongestEvt(FALSE, fate)

NextLive ==
  \/ BuildInOrder
  \/ WriteEvt(0, mds_handles.data_export_cccd_handle, <<1, 0>>, "ok")
  \/ \E fate \in Fates : WriteEvt(0, mds_handles.data_export_handle, <<1>>, fate)
  \/ Confirm
  \/ ~mds_state.congested /\ CongestEvt(TRUE, "ok")
  \/ CongestionCleared
  \/ \E size \in MessageSizes : SourceProduce(size, MaxProduced)

SpecLive ==
  Init /\ [][NextLive]_vars /\ WF_vars(Confirm) /\ WF_vars(CongestionCleared)

\* ------------------------------------------------------------------ claims
Requests(o) == CallsOf(o, CreationTypes \cup {"start_service"})

IsCccdWrite(e) == e.type = "write" /\ e.handle = mds_handles.data_export_cccd_handle
IsExportWrite(e) == e.type = "write" /\ e.handle = mds_handles.data_export_handle

Session(st) == <<st.subscribed, st.conn_id, st.export_mode>>

\* C1: the export engine is one-chunk-in-flight: a notification is submitted only
\* when the previous one has been confirmed, so at most one is ever unconfirmed.
C1_OneChunkInFlight == inflight <= 1

\* C2: each successfully submitted notification carries the previous one's sequence
\* number plus one modulo 32, and sequenceCounter stays within 0..31.
C2_SequenceFollows ==
  /\ mds_state.chunk_sequence \in 0..31
  /\ prevSeq # -1 => lastSeq = (prevSeq + 1) % 32
  /\ lastSeq # -1 => lastSeq \in 0..31 /\ mds_state.chunk_sequence = (lastSeq + 1) % 32

C2_Wrapped == prevSeq = 31 /\ lastSeq = 0 /\ evt.type = "conf"

\* C3: with the MTU of the most recent MTU event (23 if none), the bytes requested from
\* the telemetry source and carried by a notification never exceed mtu - 4, and the
\* notification is at most 1 + (mtu - 4) bytes long.
C3_PayloadWithinMtu ==
  /\ lastMtu \in {23, 185, 517}
  /\ \A i \in 1..Len(out) :
       /\ out[i].type = "get_chunk" => out[i].len <= lastMtu - 4
       /\ out[i].type = "notify" => out[i].len - 1 <= lastMtu - 4 /\ out[i].len <= 1 + (lastMtu - 4)

C3_FullChunkSent ==
  \E i \in 1..Len(out) : out[i].type = "notify" /\ out[i].ok /\ out[i].len = 1 + (lastMtu - 4)

\* C4: a 2-byte CCCD write with bit 0 set from a connection other than the recorded
\* subscriber, while subscribed, is answered AlreadySubscribed (0x81) and leaves
\* subscribed, subscriberId and exportMode as they were.
C4_SecondSubscriberRejected ==
  [][(/\ IsCccdWrite(evt') /\ Len(evt'.value) = 2 /\ evt'.value[1] % 2 = 1
      /\ mds_state.subscribed /\ mds_state.conn_id # evt'.conn)
     => (/\ out' = <<esp_ble_gatts_send_response(evt'.conn, 129, "")>>
         /\ Session(mds_state') = Session(mds_state))]_vars

C4_Rejected ==
  /\ IsCccdWrite(evt) /\ out # <<>> /\ out[1].status = 129
  /\ mds_state.subscribed /\ mds_state.conn_id # evt.conn /\ mds_state.export_mode = 1

\* C5: an accepted CCCD write with bit 0 clear leaves exportMode Idle, and from then on
\* no event sends a notification until a new subscribe and export-mode=1 write.
C5_DisableForcesIdle ==
  /\ (IsCccdWrite(evt) /\ Len(evt.value) = 2 /\ evt.value[1] % 2 = 0)
       => (out = <<esp_ble_gatts_send_response(evt.conn, 0, "")>> /\ mds_state.export_mode = 0)
  /\ sinceDisable \in {1, 2} => Notifies(out) = {} /\ mds_state.export_mode = 0

C5_ConfirmAfterDisable ==
  sinceDisable \in {1, 2} /\ evt.type = "conf" /\ src.queue # <<>> /\ lastSeq # -1

\* C6 (as claimed): a DataExport write is validated in the order length, subscription,
\* value, and only length 1, subscribed, value in {0,1} yields success and leaves
\* exportMode at that value.
C6_ExportWriteValidation ==
  [][IsExportWrite(evt') =>
       LET v == evt'.value
           status == IF Len(v) # 1 THEN 128
                     ELSE IF ~mds_state.subscribed THEN 130
                     ELSE IF v[1] \notin {0, 1} THEN 4
                     ELSE 0
       IN /\ out' # <<>>
          /\ out'[1] = esp_ble_gatts_send_response(evt'.conn, status, "")
          /\ status # 0 => out' = <<out'[1]>> /\ mds_state' = mds_state
          /\ status = 0 => mds_state'.export_mode = v[1]]_vars

\* C6 (amended): as above, except that a value-1 write whose triggered send finds the
\* telemetry source drained leaves exportMode Idle.
C6_ExportWriteValidationAmended ==
  [][IsExportWrite(evt') =>
       LET v == evt'.value
           status == IF Len(v) # 1 THEN 128
                     ELSE IF ~mds_state.subscribed THEN 130
                     ELSE IF v[1] \notin {0, 1} THEN 4
                     ELSE 0
           drained == CallsOf(out', {"get_chunk"}) # {} /\ src.queue = <<>>
       IN /\ out' # <<>>
          /\ out'[1] = esp_ble_gatts_send_response(evt'.conn, status, "")
          /\ status # 0 => out' = <<out'[1]>> /\ mds_state' = mds_state
          /\ status = 0 => mds_state'.export_mode = (IF drained THEN 0 ELSE v[1])]_vars

C6_LengthCheckedFirst ==
  /\ IsExportWrite(evt) /\ Len(evt.value) # 1 /\ ~mds_state.subscribed
  /\ out = <<esp_ble_gatts_send_response(evt.conn, 128, "")>>

\* C7: after a disconnect event every ExportSession field has its service-start value.
C7_DisconnectResets == evt.type = "disconnect" => mds_state = MdsStateInit

\* C8: with confirmations delivered in the fixed order with success status, each
\* confirmation issues exactly one request, for the next role in order, each handle is
\* recorded once from its own confirmation, and start-service is issued once, after the
\* descriptor confirmation, with the Handle Table fully populated.
BuildOrder ==
  <<"register", "service", "supported_features_handle", "device_id_handle", "data_uri_handle",
    "auth_handle", "data_export_handle", "data_export_cccd_handle", "start", "none">>

Stage(token) == CHOOSE k \in 1..Len(BuildOrder) : BuildOrder[k] = token

C8_BuildInOrder ==
  inOrder =>
    /\ Cardinality(Requests(out)) <= 1
    /\ evt.type \in {"reg", "create", "add_char", "add_char_descr"}
         => Len(out) = 1 /\ Requests(out) = {1}
    /\ evt.type = "reg" => out[1].type = "create_service" /\ out[1].len = 12
    /\ evt.type = "create"
         => out[1].type = "add_char" /\ out[1].uuid = 1 /\ profile_handle = evt.handle
    /\ (evt.type = "add_char" /\ evt.arg < 5) => out[1].type = "add_char" /\ out[1].uuid = evt.arg + 1
    /\ (evt.type = "add_char" /\ evt.arg = 5)
         => out[1].type = "add_char_descr" /\ out[1].uuid = 10498
    /\ evt.type = "add_char" => mds_handles[BuildOrder[evt.arg + 2]] = evt.handle
    /\ evt.type = "add_char_descr"
         => out[1].type = "start_service" /\ mds_handles.data_export_cccd_handle = evt.handle
    /\ \A k \in 3..8 :
         /\ setCount[BuildOrder[k]] = (IF Stage(pending) > k THEN 1 ELSE 0)
         /\ (mds_handles[BuildOrder[k]] # 0) = (Stage(pending) > k)
    /\ startCount = (IF pending \in {"start", "none"} THEN 1 ELSE 0)
    /\ pending \in {"start", "none"}
         => Cardinality({mds_handles[f] : f \in HandleFields} \ {0}) = 6

C8_Started == inOrder /\ pending = "none" /\ startCount = 1 /\ evt.type = "start"

\* C9: after a creation confirmation with a non-success status or out of the fixed order,
\* no start-service request and no attribute-creation request is issued.
C9_NoRequestAfterFailure == ~inOrder => Requests(out) = {}

\* C10: from the initial state at MTU 23, subscribe, export-mode=1 with a source holding
\* one 8-byte chunk, then the confirm: exactly one notification was sent, with header
\* byte 0x00 and 8 data bytes, exportMode is Idle and later confirm or congestion events
\* send nothing.
C10_OneChunkScenario ==
  /\ scen = 2 => /\ Cardinality(Notifies(out)) = 1
                 /\ \A i \in Notifies(out) : out[i].hdr = 0 /\ out[i].len = 1 + 8 /\ out[i].ok
                 /\ lastSeq = 0 /\ prevSeq = -1
  /\ scen = 3 => /\ Notifies(out) = {}
                 /\ lastSeq = 0 /\ prevSeq = -1
                 /\ mds_state.export_mode = 0

C10_LaterCongestionClear == scen = 3 /\ evt.type = "congest" /\ evt.arg = 0

\* C11: a request answered with an error response (a write refused with
\* InvalidLength, ClientNotSubscribed, InvalidPdu or AlreadySubscribed, a read
\* refused with InvalidHandle) leaves every field of the export session as it
\* was, pulls nothing from the telemetry source and sends no notification.
ErrorStatuses ==
  {MDS_ERR_INVALID_LENGTH, MDS_ERR_CLIENT_NOT_SUBSCRIBED, MDS_ERR_CLIENT_ALREADY_SUBSCRIBED,
   ESP_GATT_INVALID_PDU, ESP_GATT_INVALID_HANDLE}

Refused(o) == \E i \in CallsOf(o, {"response"}) : o[i].status \in ErrorStatuses

C11_ErrorResponseChangesNothing ==
  [][Refused(out') =>
       /\ mds_state' = mds_state
       /\ src' = src
       /\ CallsOf(out', {"malloc", "get_chunk", "notify", "abort"}) = {}]_vars

\* an out-of-range export mode refused while a chunk could have been sent
C11_RefusedWhileStreaming ==
  /\ IsExportWrite(evt) /\ evt.value = <<2>>
  /\ Refused(out) /\ out[1].status = ESP_GATT_INVALID_PDU
  /\ SendPreconditions(mds_state) /\ DataAvailable(src)

\* C12: while handling one event the dispatcher issues at most one outbound
\* protocol action (creation request, start-service, read or write response,
\* notification, advertising restart), the Data Export write that sets the
\* export mode to streaming included.
ProtocolActions(o) == CallsOf(o, ProtocolTypes)

C12_OneActionPerEvent == Cardinality(ProtocolActions(out)) <= 1

\* C12, amended: at most one outbound protocol action per event, except for the
\* accepted Data Export write of value 1, which issues its success response
\* first and then at most one notification.
StreamingWrite(e, o) == AcceptedWrite(e, o, mds_handles.data_export_handle) /\ e.value = <<1>>

C12_OneActionPerEventAmended ==
  IF StreamingWrite(evt, out)
    THEN /\ CallsOf(out, {"response"}) = {1}
         /\ Cardinality(Notifies(out)) <= 1
         /\ ProtocolActions(out) = {1} \cup Notifies(out)
    ELSE Cardinality(ProtocolActions(out)) <= 1

\* the write that starts streaming answered and followed by the first chunk
C12_ResponseThenNotification ==
  /\ StreamingWrite(evt, out)
  /\ Cardinality(ProtocolActions(out)) = 2
  /\ out[1].type = "response" /\ out[Len(out)].type = "notify"

\* C13: once the service is built, a read of the Supported Features, Device Id,
\* Data URI or Auth handle gets exactly one success response carrying that
\* characteristic's value; a read of any other handle, the Data Export and
\* CCCD handles included, gets exactly one InvalidHandle response; and no read
\* changes a field of the export session or of the handle table.
ReadSet ==
  [supported_features_handle |-> "mds_supported_features",
   device_id_handle |-> "mds_device_id",
   data_uri_handle |-> "mds_data_uri",
   auth_handle |-> "mds_auth"]

ReadableAs(handle) == {f \in DOMAIN ReadSet : mds_handles[f] = handle}

C13_ReadRouting ==
  [][evt'.type = "read" =>
       /\ Len(out') = 1 /\ out'[1].type = "response" /\ out'[1].conn = evt'.conn
       /\ IF ReadableAs(evt'.handle) = {}
            THEN out'[1].status = ESP_GATT_INVALID_HANDLE
            ELSE /\ out'[1].status = ESP_GATT_OK
                 /\ \A f \in ReadableAs(evt'.handle) : out'[1].arg = ReadSet[f]
       /\ mds_state' = mds_state
       /\ mds_handles' = mds_handles
       /\ src' = src]_vars

\* the descriptor read by the subscriber itself is refused
C13_CccdReadRefused ==
  /\ evt.type = "read" /\ evt.handle = mds_handles.data_export_cccd_handle
  /\ mds_state.subscribed /\ evt.conn = mds_state.conn_id
  /\ out[1].status = ESP_GATT_INVALID_HANDLE

\* C14: a write to a handle that is neither the Data Export handle nor the
\* CCCD handle is answered with a write response of non-success status, and
\* changes no session state.
IsOtherWrite(e) == e.type = "write" /\ ~IsExportWrite(e) /\ ~IsCccdWrite(e)

C14_OtherWriteRefused ==
  IsOtherWrite(evt) =>
    \E i \in CallsOf(out, {"response"}) : out[i].conn = evt.conn /\ out[i].status # ESP_GATT_OK

\* C15: when the send routine runs with its preconditions met and the source
\* reports no data available, the export mode becomes idle, no notification is
\* sent, abort is not invoked, and the sequence counter, the subscription, the
\* subscriber, the MTU and the congestion flag keep the values they had.
Pulled(o) == CallsOf(o, {"get_chunk"}) # {}

C15_DrainedGoesIdle ==
  [][Pulled(out') /\ ~DataAvailable(src) =>
       /\ mds_state'.export_mode = 0
       /\ Notifies(out') = {}
       /\ CallsOf(out', {"abort"}) = {}
       /\ src' = src
       /\ mds_state'.chunk_sequence = mds_state.chunk_sequence
       /\ mds_state'.subscribed = mds_state.subscribed /\ mds_state'.subscribed
       /\ mds_state'.conn_id = mds_state.conn_id
       /\ mds_state'.mtu = mds_state.mtu
       /\ ~mds_state'.congested
       /\ evt'.type # "congest" => mds_state'.congested = mds_state.congested]_vars

\* the confirmation of the last chunk finds the source drained
C15_DrainedAfterTransfer ==
  /\ evt.type = "conf" /\ Pulled(out) /\ Notifies(out) = {}
  /\ lastSeq >= 0 /\ mds_state.subscribed /\ mds_state.export_mode = 0
  /\ mds_state.chunk_sequence = NextSeq(lastSeq)

\* C16: when the submission of a pulled chunk fails, the source's abort is
\* invoked exactly once, the sequence counter is not advanced, the export mode
\* stays streaming and the subscription is unchanged, so that the next trigger
\* attempts a send again with the same sequence number; the sequence counter
\* advances only on a successful submission.
Failed(o) == \E i \in Notifies(o) : ~o[i].ok

C16_FailedSubmissionRetried ==
  [][/\ Failed(out') =>
          /\ Cardinality(CallsOf(out', {"abort"})) = 1
          /\ mds_state'.chunk_sequence = mds_state.chunk_sequence
          /\ mds_state'.export_mode = 1
          /\ mds_state'.subscribed /\ mds_state.subscribed
          /\ mds_state'.conn_id = mds_state.conn_id
          /\ SendPreconditions(mds_state')
     /\ \A i \in Notifies(out') : out'[i].hdr % SeqModulus = mds_state.chunk_sequence
     /\ mds_state'.chunk_sequence # mds_state.chunk_sequence => SentOk(out') # {}]_vars

\* the second chunk of a message is refused by the stack after the first went out
C16_FailedMidStream ==
  /\ evt.type = "conf" /\ Failed(out)
  /\ lastSeq >= 0 /\ mds_state.chunk_sequence = NextSeq(lastSeq)
  /\ out[Len(out)].type = "abort"

\* C17: the send routine invoked while not subscribed, or while the export
\* mode is not streaming, or while the link is congested is a silent no-op: it
\* pulls nothing from the source, sends no notification, does not invoke
\* abort and leaves every field of the export session unchanged.  Stated for
\* each trigger, against the session as the trigger hands it to the routine.
NotReady(st) == ~st.subscribed \/ st.export_mode # 1 \/ st.congested

C17_SilentNoOp ==
  [][/\ evt'.type = "conf" /\ NotReady(mds_state) =>
          out' = <<>> /\ mds_state' = mds_state /\ src' = src
     /\ StreamingWrite(evt', out') /\ NotReady([mds_state EXCEPT !.export_mode = 1]) =>
          /\ Len(out') = 1
          /\ mds_state' = [mds_state EXCEPT !.export_mode = 1]
          /\ src' = src
     /\ evt'.type = "congest" /\ NotReady([mds_state EXCEPT !.congested = (evt'.arg = 1)]) =>
          /\ out' = <<>>
          /\ mds_state' = [mds_state EXCEPT !.congested = (evt'.arg = 1)]
          /\ src' = src]_vars

\* a confirmation arrives while streaming on a congested link with data waiting
C17_ConfirmWhileCongested ==
  /\ evt.type = "conf" /\ out = <<>>
  /\ mds_state.subscribed /\ mds_state.export_mode = 1 /\ mds_state.congested
  /\ DataAvailable(src)

\* C18: a congestion event always sets the congestion flag to the event's
\* value; while the flag is set no write and no confirmation sends a
\* notification; and an event that clears congestion attempts a send if and
\* only if the export mode is streaming at that moment.
Attempted(o) == CallsOf(o, {"malloc"}) # {}

C18_CongestionGatesSending ==
  [][/\ evt'.type = "congest" => mds_state'.congested = (evt'.arg = 1)
     /\ mds_state.congested /\ evt'.type \in {"write", "conf"} => Notifies(out') = {}
     /\ evt'.type = "congest" /\ evt'.arg = 0 =>
          (Attempted(out') <=> mds_state.export_mode = 1)
     /\ evt'.type = "congest" /\ evt'.arg = 1 => ~Attempted(out')]_vars

\* streaming resumes with the chunk held back while the link was congested
C18_ResumedOnClear ==
  /\ evt.type = "congest" /\ evt.arg = 0
  /\ SentOk(out) # {} /\ ~mds_state.congested
  /\ inflight = 1

\* C19: every notification is sent on the Data Export handle to the connection
\* recorded as subscriber at the moment of the send and to no other, even when
\* the export-mode write that triggered the send came from another connection.
\* (No event that sends assigns conn_id, so the recorded subscriber at the send
\* is the one of the state the event ends in.)
C19_NotifiedSubscriberOnly ==
  \A i \in Notifies(out) :
    /\ mds_state.subscribed
    /\ out[i].conn = mds_state.conn_id /\ out[i].conn \in Conns
    /\ out[i].handle = mds_handles.data_export_handle

\* streaming is switched on by a connection that is not the subscriber
C19_StartedByOtherConnection ==
  /\ StreamingWrite(evt, out) /\ evt.conn # mds_state.conn_id
  /\ \E i \in SentOk(out) : out[i].conn = mds_state.conn_id /\ out[i].conn # evt.conn

\* C20: a 2-byte CCCD write is rejected only when it enables notifications
\* while a different connection is subscribed; every other 2-byte CCCD write
\* succeeds, and a write with bit 0 clear ends with subscribed false, the
\* subscriber cleared and the export mode idle whichever connection wrote it,
\* a connection that is not the recorded subscriber included.
BitZero(value) == value[1] % 2 = 1

C20_CccdWriteOutcome ==
  [][IsCccdWrite(evt') /\ Len(evt'.value) = 2 =>
       LET enable == BitZero(evt'.value)
           other == mds_state.subscribed /\ mds_state.conn_id # evt'.conn
       IN /\ Len(out') = 1 /\ out'[1].type = "response" /\ out'[1].conn = evt'.conn
          /\ (out'[1].status # ESP_GATT_OK) <=> (enable /\ other)
          /\ enable /\ other =>
               out'[1].status = MDS_ERR_CLIENT_ALREADY_SUBSCRIBED /\ mds_state' = mds_state
          /\ enable /\ ~other =>
               mds_state' = [mds_state EXCEPT !.subscribed = TRUE, !.conn_id = evt'.conn]
          /\ ~enable =>
               mds_state' = [mds_state EXCEPT !.subscribed = FALSE, !.conn_id = NoConn,
                                              !.export_mode = 0]]_vars

\* notifications are switched off by connection 1 while a chunk sent to the
\* subscriber is still unconfirmed
C20_DisabledWithChunkInFlight ==
  /\ IsCccdWrite(evt) /\ evt.value = <<2, 1>> /\ evt.conn = 1
  /\ out[1].status = ESP_GATT_OK
  /\ Session(mds_state) = <<FALSE, NoConn, 0>>
  /\ inflight >= 1 /\ sinceDisable = 1

\* C21: after an accepted unsubscribe (a CCCD write with bit 0 clear) the
\* export session is at rest just as at service start: not subscribed, no
\* subscriber, idle, sequence counter 0, MTU and congestion flag at their
\* initial values.
AcceptedDisable(e, o) ==
  /\ AcceptedWrite(e, o, mds_handles.data_export_cccd_handle)
  /\ Len(e.value) = 2 /\ ~BitZero(e.value)

C21_UnsubscribeResets == AcceptedDisable(evt, out) => mds_state = MdsStateInit

\* C22: if a subscriber has set the export mode to streaming, the source holds
\* finitely many chunks, every submission succeeds and is eventually followed
\* by its confirmation, and congestion is eventually cleared, then the export
\* mode eventually returns to idle after every chunk of the source has been
\* sent in source order.
Streaming == mds_state.subscribed /\ mds_state.export_mode = 1

SubmissionsSucceed == ~Failed(out)

StreamDone == mds_state.export_mode = 0 /\ ~DataAvailable(src)

AllocationsSucceed == \A i \in CallsOf(out, {"malloc"}) : out[i].ok

EnableBySubscriber(e) ==
  /\ IsCccdWrite(e) /\ Len(e.value) = 2 /\ BitZero(e.value)
  /\ mds_state.subscribed /\ mds_state.conn_id = e.conn

C23_ReenableIdempotent ==
  [][/\ EnableBySubscriber(evt') =>
          /\ out' = <<esp_ble_gatts_send_response(evt'.conn, ESP_GATT_OK, "")>>
          /\ mds_state' = mds_state
          /\ src' = src
     /\ IsCccdWrite(evt') /\ Len(evt'.value) = 2 /\ BitZero(evt'.value) =>
          LET again == CccdWrite(mds_state', src', evt'.conn, evt'.value)
          IN again.st = mds_state' /\ again.src = src' /\ again.out = out']_vars

\* the subscriber writes the enable again while its export is running
C23_ReenabledWhileStreaming ==
  /\ IsCccdWrite(evt) /\ evt.value = <<3, 0>> /\ evt.conn = mds_state.conn_id
  /\ out[1].status = ESP_GATT_OK
  /\ mds_state.subscribed /\ mds_state.export_mode = 1 /\ mds_state.chunk_sequence = 1

\* C24: in every state reachable by CCCD writes, export-mode writes, confirm,
\* congestion, MTU and disconnect events, export mode streaming implies
\* subscribed: the engine is never left streaming without a subscriber.
C24_StreamingImpliesSubscribed == mds_state.export_mode = 1 => mds_state.subscribed

\* still streaming on a congested link after the MTU was renegotiated
C24_StreamingAfterMtuChange ==
  /\ mds_state.export_mode = 1 /\ mds_state.subscribed /\ mds_state.congested
  /\ evt.type = "mtu" /\ mds_state.mtu = 517 /\ inflight >= 1

\* C25: no real connection id being 0xFFFF, in every reachable state
\* subscribed is true if and only if the recorded subscriber differs from the
\* sentinel 0xFFFF, and when subscribed the recorded subscriber is the
\* connection of the most recent accepted enable write: an accepted enable
\* write records its writer, and no other event changes the record while
\* leaving the session subscribed.
AcceptedEnable(e, o) ==
  /\ AcceptedWrite(e, o, mds_handles.data_export_cccd_handle)
  /\ Len(e.value) = 2 /\ BitZero(e.value)

C25_SubscriberRecord ==
  /\ [](mds_state.subscribed <=> mds_state.conn_id # NoConn)
  /\ [][IF AcceptedEnable(evt', out')
          THEN mds_state'.subscribed /\ mds_state'.conn_id = evt'.conn
          ELSE mds_state'.subscribed =>
                 mds_state.subscribed /\ mds_state'.conn_id = mds_state.conn_id]_vars

\* connection 1 subscribes after the previous subscription was switched off
C25_Resubscribed ==
  /\ AcceptedEnable(evt, out) /\ evt.conn = 1 /\ sinceDisable = 2
  /\ mds_state.subscribed /\ mds_state.conn_id = 1

\* C26: for an accepted Data Export write of value 1 the success response is
\* issued before the first chunk notification that write triggers; no
\* notification triggered by a write ever precedes that write's response.
C26_ResponseBeforeNotification ==
  evt.type = "write" =>
    \A i \in Notifies(out) :
      \E j \in CallsOf(out, {"response"}) :
        j < i /\ out[j].status = ESP_GATT_OK /\ out[j].conn = evt.conn

\* a whole 20-byte message leaves in the notification that follows the response
C26_FirstChunkAfterResponse ==
  /\ evt.type = "write" /\ evt.value = <<1>> /\ lastMtu = 185
  /\ \E i \in SentOk(out) : out[i].len = 21 /\ out[i].hdr = 0 /\ i > 1
  /\ out[1].type = "response"

====
